---- MODULE Spec2Model ----
(***************************************************************************)
(* py_config.base_config: a configuration loader that builds, for every    *)
(* mapping found at a field declared as a BaseElementCfg subclass, an       *)
(* object of the class its class_path names.                                *)
(*                                                                          *)
(* A document is a mapping (a function whose domain is a set of key         *)
(* strings).  A class_path string is written as the sequence of its         *)
(* dot-separated segments: "base_config_test.Item1" is                      *)
(* <<"base_config_test", "Item1">>.  A list is a sequence, a dict a         *)
(* function of its keys, None is <<>> and a value of an Optional attribute  *)
(* is the one-element sequence holding it.                                  *)
(*                                                                          *)
(* Constructing a model is one synchronous call: pre root validators, the   *)
(* fields in declaration order, then the post root validators, as pydantic  *)
(* runs them.  An exception that is no ValueError, TypeError or             *)
(* AssertionError leaves the validator chain at once; the other ones are    *)
(* collected and surface as one ValidationError after the post validators.  *)
(***************************************************************************)
EXTENDS Naturals, Sequences, FiniteSets, TLC

VARIABLES kind, args, pc, result

vars == <<kind, args, pc, result>>

-----------------------------------------------------------------------------
(* Values *)

None == <<>>

Some(v) == <<v>>

EmptyDict == [k \in {} |-> k]

WithKey(m, k, v) == [x \in DOMAIN m \cup {k} |-> IF x = k THEN v ELSE m[x]]

Restrict(m, S) == [x \in S |-> m[x]]

NoExc == "none"

MissingClassPath == "ConfigurationError: 'class_path' is required for configurable object."

NotASubclass == "ConfigurationError: Specialization must be a subclass"

ModuleNotFound == "ModuleNotFoundError"

AttributeErr == "AttributeError"

TypeErr == "TypeError"

ValidationErr == "ValidationError"

(* The exceptions a pydantic validator chain collects instead of letting   *)
(* them through: ValueError, TypeError, AssertionError and their           *)
(* subclasses.  ConfigurationError is none of them: the tests expect it    *)
(* from the container's constructor itself.                                *)
Caught == {TypeErr, ValidationErr}

NoObj == [cls |-> "", attrs |-> EmptyDict]

Ok(o, log) == [exc |-> NoExc, obj |-> o, log |-> log]

Raise(e, log) == [exc |-> e, obj |-> NoObj, log |-> log]

-----------------------------------------------------------------------------
(* The classes.  A field is [name, kind, of, required]; kind is one of      *)
(* "OptStr", "OptBool", "Kwargs", "Str", "Elem" (a model of class of),      *)
(* "List" (List[of]), "Dict" (Dict[str, of]), "StrList" (List[str]) and     *)
(* "StrDict" (Dict[str, str]).                                              *)

Fld(n, k, o, r) == [name |-> n, kind |-> k, of |-> o, required |-> r]

LibraryClasses ==
    [ BaseContainerCfg |-> [parent |-> "", fields |-> <<>>],
      BaseElementCfg   |-> [parent |-> "BaseContainerCfg",
                            fields |-> << Fld("class_path", "OptStr", "", FALSE),
                                          Fld("base_class", "OptBool", "", FALSE),
                                          Fld("kwargs", "Kwargs", "", FALSE) >>] ]

TestClasses ==
    [ BaseItem      |-> [parent |-> "BaseElementCfg", fields |-> <<>>],
      Item1         |-> [parent |-> "BaseItem",
                         fields |-> << Fld("arg1", "Str", "", TRUE) >>],
      Item2         |-> [parent |-> "Item1",
                         fields |-> << Fld("arg2", "Str", "", TRUE) >>],
      ContainerCfg  |-> [parent |-> "BaseContainerCfg",
                         fields |-> << Fld("item1", "Elem", "BaseItem", TRUE),
                                       Fld("item2", "Elem", "BaseItem", TRUE) >>],
      ItemX         |-> [parent |-> "BaseElementCfg",
                         fields |-> << Fld("arg1", "Str", "", TRUE) >>],
      ContainerX    |-> [parent |-> "BaseContainerCfg",
                         fields |-> << Fld("item", "Elem", "BaseItem", TRUE) >>],
      ContainerList |-> [parent |-> "BaseContainerCfg",
                         fields |-> << Fld("items", "List", "Item1", TRUE) >>],
      ContainerDict |-> [parent |-> "BaseContainerCfg",
                         fields |-> << Fld("items", "Dict", "Item1", TRUE) >>] ]

(* Two more classes a user of the library writes, in the style of the test *)
(* module: an element that declares an element field of its own (the       *)
(* module docstring's nested "item"), and a container of plain values.     *)
UserClasses ==
    [ Item3         |-> [parent |-> "BaseItem",
                         fields |-> << Fld("item", "Elem", "BaseItem", TRUE) >>],
      ContainerTags |-> [parent |-> "BaseContainerCfg",
                         fields |-> << Fld("name", "Str", "", TRUE),
                                       Fld("tags", "StrList", "", TRUE),
                                       Fld("labels", "StrDict", "", TRUE) >>] ]

ClassDef(c) ==
    IF c \in DOMAIN LibraryClasses THEN LibraryClasses[c]
    ELSE IF c \in DOMAIN TestClasses THEN TestClasses[c]
    ELSE UserClasses[c]

RECURSIVE getmro(_)
getmro(c) == IF c = "" THEN {} ELSE {c} \cup getmro(ClassDef(c).parent)

RECURSIVE Fields(_)
Fields(c) == IF c = "" THEN <<>> ELSE Fields(ClassDef(c).parent) \o ClassDef(c).fields

IsElementCls(c) == "BaseElementCfg" \in getmro(c)

Bookkeeping == {"class_path", "base_class", "kwargs"}

-----------------------------------------------------------------------------
(* class_from_name *)

(* The modules importlib can import and the classes each one holds.  Under *)
(* the test run __main__ is the test runner and holds no such class.       *)
ModuleAttrs(module_name) ==
    IF module_name = <<"base_config_test">>
        THEN Some(DOMAIN TestClasses \cup DOMAIN UserClasses \cup DOMAIN LibraryClasses)
    ELSE IF module_name = <<"py_config", "base_config">> THEN Some(DOMAIN LibraryClasses)
    ELSE IF module_name = <<"__main__">> THEN Some({})
    ELSE None

rsplit(class_path) ==
    IF Len(class_path) >= 2
        THEN [module_name |-> SubSeq(class_path, 1, Len(class_path) - 1),
              class_name |-> class_path[Len(class_path)]]
        ELSE [module_name |-> <<"__main__">>, class_name |-> class_path[1]]

class_from_name(class_path) ==
    LET parts == rsplit(class_path)
        module == ModuleAttrs(parts.module_name)
    IN  IF module = None THEN [exc |-> ModuleNotFound, cls |-> ""]
        ELSE IF parts.class_name \notin module[1] THEN [exc |-> AttributeErr, cls |-> ""]
        ELSE [exc |-> NoExc, cls |-> parts.class_name]

-----------------------------------------------------------------------------
(* BaseElementCfg.args_to_kwargs, the pre root validator *)

(* args_to_kwargs_unchecked is the variant without the class_path check. *)
args_to_kwargs_unchecked(values) ==
    IF "base_class" \notin DOMAIN values
        THEN [exc |-> NoExc,
              values |-> WithKey(values, "kwargs",
                                 Restrict(values, DOMAIN values \ {"class_path", "base_class"}))]
    ELSE [exc |-> NoExc,
          values |-> Restrict(values, DOMAIN values \ {"base_class", "class_path"})]

args_to_kwargs(values) ==
    IF "class_path" \notin DOMAIN values
        THEN [exc |-> MissingClassPath, values |-> values]
    ELSE IF "base_class" \notin DOMAIN values
        THEN [exc |-> NoExc,
              values |-> WithKey(values, "kwargs",
                                 Restrict(values, DOMAIN values \ {"class_path", "base_class"}))]
    ELSE [exc |-> NoExc,
          values |-> Restrict(values, DOMAIN values \ {"base_class", "class_path"})]

-----------------------------------------------------------------------------
(* The log of one load: every run of args_to_kwargs and of specialize_field, *)
(* with the place in the document of the mapping it ran on.                  *)

PreEvent(path, values) ==
    [ev |-> "args_to_kwargs", path |-> path, cls |-> "",
     cp |-> "class_path" \in DOMAIN values, kw |-> FALSE]

CallEvent(path, self) ==
    [ev |-> "specialize_field", path |-> path, cls |-> self.cls,
     cp |-> self.attrs.class_path # None, kw |-> self.attrs.kwargs # None]

-----------------------------------------------------------------------------
(* Construction *)

(* The class pydantic.parse_obj_as is handed: the class class_path names   *)
(* (parse_target_self: the variant that hands it the raw object's class).  *)
parse_target_self(self, specialized_cls) == self.cls

parse_target(self, specialized_cls) == specialized_cls

(* element.class_path = element.base_class = element.kwargs = None *)
clean_up(element) ==
    [element EXCEPT !.attrs = [k \in DOMAIN @ |-> IF k \in Bookkeeping THEN None ELSE @[k]]]

(* elements.append(element) (append_element_front: the variant that puts  *)
(* the element first).                                                     *)
append_element_front(elements, element) == <<element>> \o elements

append_element(elements, element) == Append(elements, element)

(* The order in which a dict's items are visited: the order of the keys in *)
(* the document.                                                           *)
KeyOrder == <<"a", "b">>

KeySeq(S) == LET in(k) == k \in S IN SelectSeq(KeyOrder, in)

RECURSIVE Construct(_, _, _, _)
RECURSIVE ValidateFields(_, _, _, _, _)
RECURSIVE ValidateSeq(_, _, _, _, _, _, _)
RECURSIVE ValidateDict(_, _, _, _, _, _, _, _)
RECURSIVE specialize(_, _, _, _, _, _)

(* BaseElementCfg.specialize_field *)
specialize_field(self, path, log) ==
    LET log1 == Append(log, CallEvent(path, self))
    IN  IF self.attrs.class_path = None THEN Raise(AttributeErr, log1)
        ELSE LET r == class_from_name(self.attrs.class_path[1])
             IN  IF r.exc # NoExc THEN Raise(r.exc, log1)
                 ELSE IF self.cls \notin getmro(r.cls) THEN Raise(NotASubclass, log1)
                 ELSE IF self.attrs.kwargs = None THEN Raise(TypeErr, log1)
                 ELSE LET kw == self.attrs.kwargs[1]
                          a == [k \in {"class_path", "base_class"} \cup DOMAIN kw |->
                                    IF k = "base_class" THEN FALSE
                                    ELSE IF k \in DOMAIN kw THEN kw[k]
                                    ELSE <<r.cls>>]
                      IN  Construct(parse_target(self, r.cls), a, path, log1)

(* The list branch of BaseContainerCfg.specialize, lines 74-81. *)
RECURSIVE clean_list(_, _, _, _)
clean_list(f, v, i, elements) ==
    IF i > Len(v) THEN [exc |-> NoExc, val |-> elements]
    ELSE IF f.kind = "StrList" THEN [exc |-> AttributeErr, val |-> elements]
    ELSE clean_list(f, v, i + 1, append_element(elements, clean_up(v[i])))

(* The dict branch of BaseContainerCfg.specialize, lines 82-94. *)
clean_dict(f, v) ==
    [kk \in DOMAIN v |-> IF f.kind = "Dict" /\ IsElementCls(f.of) THEN clean_up(v[kk]) ELSE v[kk]]

IsList(f, v) == f.kind \in {"List", "StrList"}

IsDict(f, v) == f.kind \in {"Dict", "StrDict"} \/ (f.kind = "Kwargs" /\ v # None)

IsElement(f, v) == f.kind = "Elem" /\ IsElementCls(v.cls)

(* BaseContainerCfg.specialize, the post root validator: the loop over     *)
(* values.items(), which holds the validated fields in declaration order.  *)
specialize(fs, i, values, path, specialized_values, log) ==
    IF i > Len(fs) THEN [exc |-> NoExc, values |-> specialized_values, log |-> log]
    ELSE LET k == fs[i].name IN
         IF k \notin DOMAIN values
             THEN specialize(fs, i + 1, values, path, specialized_values, log)
         ELSE LET v == values[k] IN
              IF IsList(fs[i], v) THEN
                  LET r == clean_list(fs[i], v, 1, <<>>)
                  IN  IF r.exc # NoExc
                          THEN [exc |-> r.exc, values |-> specialized_values, log |-> log]
                          ELSE specialize(fs, i + 1, values, path,
                                          WithKey(specialized_values, k, r.val), log)
              ELSE IF IsDict(fs[i], v) THEN
                  specialize(fs, i + 1, values, path,
                             WithKey(specialized_values, k,
                                     IF fs[i].kind = "Kwargs"
                                         THEN Some(clean_dict(fs[i], v[1]))
                                         ELSE clean_dict(fs[i], v)), log)
              ELSE IF IsElement(fs[i], v) THEN
                  LET r == specialize_field(v, Append(path, k), log)
                  IN  IF r.exc # NoExc
                          THEN [exc |-> r.exc, values |-> specialized_values, log |-> r.log]
                          ELSE specialize(fs, i + 1, values, path,
                                          WithKey(specialized_values, k, r.obj), r.log)
              ELSE specialize(fs, i + 1, values, path, WithKey(specialized_values, k, v), log)

(* The members of a List[T] field, each validated as a T. *)
ValidateSeq(T, v, i, path, log, acc, err) ==
    IF i > Len(v) THEN [exc |-> NoExc, err |-> err, val |-> acc, log |-> log]
    ELSE LET r == Construct(T, v[i], Append(path, ToString(i - 1)), log)
         IN  IF r.exc = NoExc
                 THEN ValidateSeq(T, v, i + 1, path, r.log, Append(acc, r.obj), err)
             ELSE IF r.exc \in Caught
                 THEN ValidateSeq(T, v, i + 1, path, r.log, acc, TRUE)
             ELSE [exc |-> r.exc, err |-> TRUE, val |-> acc, log |-> r.log]

(* The values of a Dict[str, T] field, each validated as a T. *)
ValidateDict(T, v, keys, i, path, log, acc, err) ==
    IF i > Len(keys) THEN [exc |-> NoExc, err |-> err, val |-> acc, log |-> log]
    ELSE LET r == Construct(T, v[keys[i]], Append(path, keys[i]), log)
         IN  IF r.exc = NoExc
                 THEN ValidateDict(T, v, keys, i + 1, path, r.log,
                                   WithKey(acc, keys[i], r.obj), err)
             ELSE IF r.exc \in Caught
                 THEN ValidateDict(T, v, keys, i + 1, path, r.log, acc, TRUE)
             ELSE [exc |-> r.exc, err |-> TRUE, val |-> acc, log |-> r.log]

(* One field's value validated against the field's declared type. *)
ValidateField(f, value, path, log) ==
    IF f.kind = "Elem" THEN
        LET r == Construct(f.of, value, Append(path, f.name), log)
        IN  IF r.exc = NoExc THEN [exc |-> NoExc, err |-> FALSE, val |-> r.obj, log |-> r.log]
            ELSE IF r.exc \in Caught
                THEN [exc |-> NoExc, err |-> TRUE, val |-> None, log |-> r.log]
            ELSE [exc |-> r.exc, err |-> TRUE, val |-> None, log |-> r.log]
    ELSE IF f.kind = "List" THEN ValidateSeq(f.of, value, 1, Append(path, f.name), log, <<>>, FALSE)
    ELSE IF f.kind = "Dict"
        THEN ValidateDict(f.of, value, KeySeq(DOMAIN value), 1, Append(path, f.name), log,
                          EmptyDict, FALSE)
    ELSE IF f.kind \in {"OptStr", "OptBool", "Kwargs"}
        THEN [exc |-> NoExc, err |-> FALSE, val |-> Some(value), log |-> log]
    ELSE [exc |-> NoExc, err |-> FALSE, val |-> value, log |-> log]

(* The fields of a model in declaration order: a missing required field is *)
(* an error, a missing optional one takes its default (None); a field that *)
(* fails validation is left out of values.                                 *)
ValidateFields(fs, i, data, path, st) ==
    IF i > Len(fs) THEN st
    ELSE LET f == fs[i] IN
         IF f.name \notin DOMAIN data THEN
             IF f.required
                 THEN ValidateFields(fs, i + 1, data, path, [st EXCEPT !.err = TRUE])
                 ELSE ValidateFields(fs, i + 1, data, path,
                                     [st EXCEPT !.values = WithKey(@, f.name, None)])
         ELSE LET r == ValidateField(f, data[f.name], path, st.log)
              IN  IF r.exc # NoExc THEN [st EXCEPT !.exc = r.exc, !.log = r.log]
                  ELSE IF r.err
                      THEN ValidateFields(fs, i + 1, data, path,
                                          [st EXCEPT !.err = TRUE, !.log = r.log])
                  ELSE ValidateFields(fs, i + 1, data, path,
                                      [st EXCEPT !.values = WithKey(@, f.name, r.val),
                                                 !.log = r.log])

(* Constructing a cls from the mapping data: the pre root validator of an  *)
(* element class, the fields, then the post root validator specialize,     *)
(* which runs whether or not a field failed.                               *)
Construct(cls, data, path, log) ==
    LET isElem == IsElementCls(cls)
        pre == IF isElem THEN args_to_kwargs(data) ELSE [exc |-> NoExc, values |-> data]
        log0 == IF isElem THEN Append(log, PreEvent(path, data)) ELSE log
    IN  IF pre.exc # NoExc THEN Raise(pre.exc, log0)
        ELSE LET st == ValidateFields(Fields(cls), 1, pre.values, path,
                                      [values |-> EmptyDict, err |-> FALSE,
                                       exc |-> NoExc, log |-> log0])
             IN  IF st.exc # NoExc THEN Raise(st.exc, st.log)
                 ELSE LET post == specialize(Fields(cls), 1, st.values, path, EmptyDict, st.log)
                      IN  IF post.exc # NoExc /\ post.exc \notin Caught
                              THEN Raise(post.exc, post.log)
                          ELSE IF post.exc # NoExc \/ st.err
                              THEN Raise(ValidationErr, post.log)
                          ELSE Ok([cls |-> cls, attrs |-> post.values], post.log)

-----------------------------------------------------------------------------
(* The documents loaded *)

MaxLen == 2

MaxDepth == 2

CP(name) == <<"base_config_test", name>>

(* The class paths a document uses: the test module's element classes, a   *)
(* module that does not exist (test_dict's "p_test.Item") and a name the   *)
(* test module does not hold.                                              *)
ClassPaths ==
    {CP("BaseItem"), CP("Item1"), CP("Item2"), CP("ItemX"), CP("Item3"),
     <<"p_test", "Item">>, CP("Item9")}

MemberClassPaths == {CP("Item1"), CP("Item2"), CP("ItemX"), <<"p_test", "Item">>}

ArgValues == {"arg1.1", "arg1.2"}

Merge(m1, m2) ==
    [k \in DOMAIN m1 \cup DOMAIN m2 |-> IF k \in DOMAIN m2 THEN m2[k] ELSE m1[k]]

WithClassPath(cps) == {EmptyDict} \cup {[class_path |-> cp] : cp \in cps}

Scalars(vals) == {[arg1 |-> x] : x \in vals} \cup {[arg1 |-> x, arg2 |-> "arg2"] : x \in vals}

(* A document may itself carry the keys the loader keeps its own notes in. *)
Markers == {EmptyDict, [base_class |-> FALSE], [kwargs |-> EmptyDict]}

LeafDocs ==
    {Merge(Merge(c, s), m) : c \in WithClassPath(ClassPaths), s \in Scalars(ArgValues),
                             m \in Markers}

SmallDocs ==
    {Merge(c, s) : c \in WithClassPath(ClassPaths), s \in Scalars({"arg1.1"})}
    \cup {[class_path |-> CP("Item3"), item |-> e] :
              e \in {[class_path |-> CP("Item1"), arg1 |-> "arg1.1"], [arg1 |-> "arg1.1"]}}

RECURSIVE NestDocs(_)
NestDocs(d) ==
    IF d = 0 THEN LeafDocs
    ELSE LeafDocs \cup {[class_path |-> cp, item |-> e] :
                            cp \in {CP("Item3"), CP("BaseItem")}, e \in NestDocs(d - 1)}

MemberDocs ==
    {Merge(c, s) : c \in WithClassPath(MemberClassPaths), s \in Scalars(ArgValues)}
    \cup {Merge([class_path |-> CP("Item1"), arg1 |-> "arg1.1"], m) : m \in Markers}

RECURSIVE SeqsUpTo(_, _)
SeqsUpTo(S, n) ==
    IF n = 0 THEN {<<>>}
    ELSE LET shorter == SeqsUpTo(S, n - 1)
         IN  shorter \cup {Append(q, x) : q \in {r \in shorter : Len(r) = n - 1}, x \in S}

DictsOver(keys, S) == UNION {[ks -> S] : ks \in SUBSET keys}

Docs(k) ==
    IF k = "ContainerCfg"
        THEN {[item1 |-> a, item2 |-> b] : a \in NestDocs(MaxDepth), b \in SmallDocs}
    ELSE IF k = "ContainerX" THEN {[item |-> a] : a \in NestDocs(MaxDepth)}
    ELSE IF k = "ContainerList" THEN {[items |-> q] : q \in SeqsUpTo(MemberDocs, MaxLen)}
    ELSE IF k = "ContainerDict"
        THEN {[items |-> d] : d \in DictsOver({KeyOrder[i] : i \in 1..Len(KeyOrder)}, MemberDocs)}
    ELSE {[name |-> n, tags |-> t, labels |-> l] :
              n \in {"n1", "n2"}, t \in SeqsUpTo({"t1", "t2"}, MaxLen),
              l \in DictsOver({"a", "b"}, {"x", "y"})}

-----------------------------------------------------------------------------
(* The loads *)

NotLoaded == [exc |-> NoExc, obj |-> NoObj, log |-> <<>>]

InitOf(kinds) ==
    /\ kind \in kinds
    /\ args \in Docs(kind)
    /\ pc = "ready"
    /\ result = NotLoaded

Init == InitOf({"ContainerCfg", "ContainerX", "ContainerList", "ContainerDict"})

LoadContainerCfg ==
    /\ pc = "ready"
    /\ kind = "ContainerCfg"
    /\ result' = Construct("ContainerCfg", args, <<>>, <<>>)
    /\ pc' = "done"
    /\ UNCHANGED <<kind, args>>

LoadContainerX ==
    /\ pc = "ready"
    /\ kind = "ContainerX"
    /\ result' = Construct("ContainerX", args, <<>>, <<>>)
    /\ pc' = "done"
    /\ UNCHANGED <<kind, args>>

LoadContainerList ==
    /\ pc = "ready"
    /\ kind = "ContainerList"
    /\ result' = Construct("ContainerList", args, <<>>, <<>>)
    /\ pc' = "done"
    /\ UNCHANGED <<kind, args>>

LoadContainerDict ==
    /\ pc = "ready"
    /\ kind = "ContainerDict"
    /\ result' = Construct("ContainerDict", args, <<>>, <<>>)
    /\ pc' = "done"
    /\ UNCHANGED <<kind, args>>

LoadContainerTags ==
    /\ pc = "ready"
    /\ kind = "ContainerTags"
    /\ result' = Construct("ContainerTags", args, <<>>, <<>>)
    /\ pc' = "done"
    /\ UNCHANGED <<kind, args>>

Next == LoadContainerCfg \/ LoadContainerX \/ LoadContainerList \/ LoadContainerDict

Spec == Init /\ [][Next]_vars

InitPlain == InitOf({"ContainerTags"})

NextPlain == LoadContainerTags

SpecPlain == InitPlain /\ [][NextPlain]_vars

-----------------------------------------------------------------------------
(* What a document says, read without running the loader *)

Done == pc = "done"

Loaded == Done /\ result.exc = NoExc

FieldNames(c) == {Fields(c)[i].name : i \in 1..Len(Fields(c))}

Calls(p) ==
    {i \in 1..Len(result.log) :
         result.log[i].ev = "specialize_field" /\ result.log[i].path = p}

(* What is wrong with the mapping doc at a place declared as a base: no     *)
(* class_path, a class_path that names no class, a class that is not base   *)
(* or a descendant, a bookkeeping key of the loader, or a field of the      *)
(* named class left out; and the same for the element fields the named      *)
(* class declares.                                                          *)
RECURSIVE ElemDefects(_, _)
RECURSIVE FieldDefects(_, _)
ElemDefects(doc, base) ==
    IF "class_path" \notin DOMAIN doc THEN {"missing"}
    ELSE LET r == class_from_name(doc.class_path)
         IN  IF r.exc # NoExc THEN {"unresolved"}
             ELSE (IF base \notin getmro(r.cls) THEN {"nonconforming"} ELSE {})
                  \cup (IF DOMAIN doc \cap {"base_class", "kwargs"} # {}
                            THEN {"bookkeeping"} ELSE {})
                  \cup (IF ~(FieldNames(r.cls) \ Bookkeeping \subseteq DOMAIN doc)
                            THEN {"fields"} ELSE {})
                  \cup UNION {FieldDefects(Fields(r.cls)[i], doc) : i \in 1..Len(Fields(r.cls))}

FieldDefects(f, doc) ==
    IF f.name \notin DOMAIN doc THEN {}
    ELSE IF f.kind = "Elem" /\ IsElementCls(f.of) THEN ElemDefects(doc[f.name], f.of)
    ELSE IF f.kind = "List"
        THEN UNION {ElemDefects(doc[f.name][i], f.of) : i \in 1..Len(doc[f.name])}
    ELSE IF f.kind = "Dict"
        THEN UNION {ElemDefects(doc[f.name][k], f.of) : k \in DOMAIN doc[f.name]}
    ELSE {}

DocDefects(k, doc) == UNION {FieldDefects(Fields(k)[i], doc) : i \in 1..Len(Fields(k))}

ValidDoc == DocDefects(kind, args) = {}

(* The places of the document that hold a Dynamic Element. *)
RECURSIVE ElemPaths(_, _, _)
RECURSIVE FieldPaths(_, _, _)
ElemPaths(doc, base, path) ==
    {path} \cup
    (IF "class_path" \notin DOMAIN doc THEN {}
     ELSE LET r == class_from_name(doc.class_path)
          IN  IF r.exc # NoExc THEN {}
              ELSE UNION {FieldPaths(Fields(r.cls)[i], doc, path) : i \in 1..Len(Fields(r.cls))})

FieldPaths(f, doc, path) ==
    IF f.name \notin DOMAIN doc THEN {}
    ELSE IF f.kind = "Elem" /\ IsElementCls(f.of)
        THEN ElemPaths(doc[f.name], f.of, Append(path, f.name))
    ELSE IF f.kind = "List"
        THEN UNION {ElemPaths(doc[f.name][i], f.of, path \o <<f.name, ToString(i - 1)>>) :
                        i \in 1..Len(doc[f.name])}
    ELSE IF f.kind = "Dict"
        THEN UNION {ElemPaths(doc[f.name][k], f.of, path \o <<f.name, k>>) :
                        k \in DOMAIN doc[f.name]}
    ELSE {}

DocPaths(k, doc) == UNION {FieldPaths(Fields(k)[i], doc, <<>>) : i \in 1..Len(Fields(k))}

(* The class a mapping names. *)
Named(doc) == class_from_name(doc.class_path).cls

Names(doc) == "class_path" \in DOMAIN doc /\ class_from_name(doc.class_path).exc = NoExc

(* The object o holds, in each of its own plain fields, the value the       *)
(* mapping doc gives under the same name.                                   *)
Bound(doc, o) ==
    \A i \in 1..Len(Fields(o.cls)) :
        LET f == Fields(o.cls)[i]
        IN  f.kind = "Str" => f.name \in DOMAIN doc /\ o.attrs[f.name] = doc[f.name]

(* Every element a single field of o holds, at any depth, is an object of   *)
(* the class its mapping names, with the mapping's fields bound.            *)
RECURSIVE SingleFieldsExact(_, _)
SingleFieldsExact(doc, o) ==
    \A i \in 1..Len(Fields(o.cls)) :
        LET f == Fields(o.cls)[i]
        IN  IF f.kind = "Elem" /\ IsElementCls(f.of) THEN
                /\ Names(doc[f.name])
                /\ o.attrs[f.name].cls = Named(doc[f.name])
                /\ Bound(doc[f.name], o.attrs[f.name])
                /\ SingleFieldsExact(doc[f.name], o.attrs[f.name])
            ELSE IF f.kind = "List" THEN
                \A j \in 1..Len(o.attrs[f.name]) :
                    SingleFieldsExact(doc[f.name][j], o.attrs[f.name][j])
            ELSE IF f.kind = "Dict" THEN
                \A k \in DOMAIN o.attrs[f.name] :
                    SingleFieldsExact(doc[f.name][k], o.attrs[f.name][k])
            ELSE TRUE

(* Every member of a sequence field and every value of a map field of o is  *)
(* an object of the class its own mapping names.                            *)
MembersSpecialized(doc, o) ==
    \A i \in 1..Len(Fields(o.cls)) :
        LET f == Fields(o.cls)[i]
        IN  IF f.kind = "List" THEN
                \A j \in 1..Len(o.attrs[f.name]) :
                    /\ Names(doc[f.name][j])
                    /\ o.attrs[f.name][j].cls = Named(doc[f.name][j])
            ELSE IF f.kind = "Dict" THEN
                \A k \in DOMAIN o.attrs[f.name] :
                    /\ Names(doc[f.name][k])
                    /\ o.attrs[f.name][k].cls = Named(doc[f.name][k])
            ELSE TRUE

(* Sequence fields keep length and order, map fields keep their keys, and   *)
(* each member holds the field values of its own mapping.                   *)
MembersKept(doc, o) ==
    \A i \in 1..Len(Fields(o.cls)) :
        LET f == Fields(o.cls)[i]
        IN  IF f.kind = "List" THEN
                /\ Len(o.attrs[f.name]) = Len(doc[f.name])
                /\ \A j \in 1..Len(doc[f.name]) : Bound(doc[f.name][j], o.attrs[f.name][j])
            ELSE IF f.kind = "Dict" THEN
                /\ DOMAIN o.attrs[f.name] = DOMAIN doc[f.name]
                /\ \A k \in DOMAIN doc[f.name] : Bound(doc[f.name][k], o.attrs[f.name][k])
            ELSE TRUE

(* No element reachable from o keeps a bookkeeping attribute. *)
RECURSIVE Cleared(_)
ElemCleared(e) ==
    /\ e.attrs.class_path = None
    /\ e.attrs.base_class = None
    /\ e.attrs.kwargs = None
    /\ Cleared(e)

Cleared(o) ==
    \A i \in 1..Len(Fields(o.cls)) :
        LET f == Fields(o.cls)[i]
        IN  IF f.kind = "Elem" /\ IsElementCls(f.of) THEN ElemCleared(o.attrs[f.name])
            ELSE IF f.kind = "List"
                THEN \A j \in 1..Len(o.attrs[f.name]) : ElemCleared(o.attrs[f.name][j])
            ELSE IF f.kind = "Dict"
                THEN \A k \in DOMAIN o.attrs[f.name] : ElemCleared(o.attrs[f.name][k])
            ELSE TRUE

OmittedSeen ==
    \E i \in 1..Len(result.log) :
        result.log[i].ev = "args_to_kwargs" /\ ~result.log[i].cp

-----------------------------------------------------------------------------
(* The properties *)

(* C1: a document with nothing wrong in it (every Dynamic Element names a  *)
(* class that is its declared base or a descendant, and gives that class's *)
(* fields) loads, and in every loaded container each element held in a    *)
(* single field, at any depth, is an object of exactly the class its       *)
(* class_path names, holding the document's values in the fields of the    *)
(* same name.                                                              *)
C1_SingleFieldsExact ==
    Done => /\ ValidDoc => result.exc = NoExc
            /\ result.exc = NoExc => SingleFieldsExact(args, result.obj)

C1_Witness ==
    /\ Loaded /\ ValidDoc /\ kind = "ContainerX"
    /\ args.item.class_path = CP("Item3")
    /\ args.item.item.class_path = CP("Item2")
    /\ result.obj.attrs.item.cls = "Item3"
    /\ result.obj.attrs.item.attrs.item.cls = "Item2"
    /\ result.obj.attrs.item.attrs.item.attrs.arg1 = "arg1.2"

(* C2: after a load, every member of a sequence field and every value of a *)
(* map field is an object of the class its own class_path names.           *)
C2_MembersSpecialized == Loaded => MembersSpecialized(args, result.obj)

(* C3: whenever the loader meets a mapping without class_path at a Dynamic *)
(* Element position (a plain field, a sequence member or a map value, at   *)
(* any depth) the load fails with the "class_path is required"             *)
(* ConfigurationError; so does every document in which an omitted          *)
(* class_path is all that is wrong.                                        *)
C3_MissingClassPathFails ==
    Done => /\ OmittedSeen => result.exc = MissingClassPath
            /\ DocDefects(kind, args) = {"missing"} => result.exc = MissingClassPath

C3_Witness ==
    /\ Done /\ kind = "ContainerX"
    /\ DocDefects(kind, args) = {"missing"}
    /\ "class_path" \in DOMAIN args.item
    /\ "item" \in DOMAIN args.item
    /\ "class_path" \in DOMAIN args.item.item
    /\ "item" \in DOMAIN args.item.item
    /\ "class_path" \notin DOMAIN args.item.item.item
    /\ result.exc = MissingClassPath

(* C4: a document in which all that is wrong is a class_path naming a      *)
(* class that is neither the declared base nor a descendant fails with the *)
(* "must be a subclass" ConfigurationError, at a plain field, a sequence   *)
(* member or a map value alike.                                            *)
C4_NonConformingFails ==
    Done /\ DocDefects(kind, args) = {"nonconforming"} => result.exc = NotASubclass

(* C5: a document in which all that is wrong is a class_path whose module  *)
(* cannot be imported or whose name the module does not hold fails with    *)
(* the resolver's error, wherever the class_path stands.                   *)
C5_UnresolvedFails ==
    Done /\ DocDefects(kind, args) = {"unresolved"} =>
        result.exc \in {ModuleNotFound, AttributeErr}

(* C6: after a load, every Dynamic Element reachable from the container    *)
(* has class_path, base_class and kwargs all None, whatever the document.  *)
C6_BookkeepingCleared == Loaded => Cleared(result.obj)

C8_PlainValuesPass == Done => result.exc = NoExc /\ result.obj.attrs = args

(* C9: in a load, specialize_field runs exactly once for each Dynamic      *)
(* Element of the document.                                                *)
C9_SpecializedOnce ==
    Loaded => \A p \in DocPaths(kind, args) : Cardinality(Calls(p)) = 1

(* C10: specialize_field only ever runs on an element whose class_path and *)
(* kwargs are set.                                                         *)
C10_SpecializeFieldOnRaw ==
    \A i \in 1..Len(result.log) :
        result.log[i].ev = "specialize_field" => result.log[i].cp /\ result.log[i].kw

====
